---------------------------- MODULE Spec2Model ----------------------------
(***************************************************************************)
(* Fire suppression sprinkler: the fuzzy logic controller                  *)
(* (src/fuzzy_logic_controller.py) and the window that drives it           *)
(* (src/gui_components.py).                                                *)
(*                                                                         *)
(* Numbers.  The controller computes with Python floats.  The model        *)
(* computes the same expressions in exact rational arithmetic:             *)
(*   - a temperature is an integer number of degrees Fahrenheit;           *)
(*   - a duration is an integer number of half seconds (Sec(n) is n        *)
(*     seconds), so that the breakpoints 22.5 s and 12.5 s are exact;      *)
(*   - a membership degree m is the integer m * One; every divisor of a    *)
(*     membership formula divides One, so the degrees are exact;           *)
(*   - a rule output is an integer number of tenths;                       *)
(*   - water_output is a reduced fraction [num, den], den > 0.             *)
(* Rounding of the float operations is not modelled.                       *)
(***************************************************************************)
EXTENDS Integers, Sequences, FiniteSets

VARIABLES
    heat_level,            \* argument of calculate_system_response (deg F)
    duration,              \* argument of calculate_system_response (half s)
    result,                \* dict returned by calculate_system_response
    heat_memberships,      \* argument of a direct get_fuzzy_output call
    duration_memberships,  \* argument of a direct get_fuzzy_output call
    water_output,          \* value returned by the direct get_fuzzy_output
    dominant_heat,         \* get_dominant_membership(heat_memberships)
    dominant_duration,     \* get_dominant_membership(duration_memberships)
    gui,                   \* the FireSuppressionGUI object and its widgets
    after                  \* callbacks scheduled with root.after, pending

vars == <<heat_level, duration, result, heat_memberships,
          duration_memberships, water_output, dominant_heat,
          dominant_duration, gui, after>>

---------------------------------------------------------------------------
(* Bounds of the explored inputs. *)

\* Temperatures run from TempBelow degrees under the slider minimum ...
TempBelow == 25
\* ... to TempAbove degrees over the slider maximum.
TempAbove == 25
\* Durations run from DurBelow half seconds under zero ...
DurBelow == 12
\* ... to DurMax half seconds (the long set saturates at 120 half seconds).
DurMax == 130
\* Degrees of the arbitrary membership maps handed to the helpers directly.
MaxDegree == 2
\* The heat slider is explored at SliderStops + 1 evenly spread positions.
SliderStops == 8
\* Start Fire is explored while fewer than MaxPending callbacks of a kind
\* are pending.
MaxPending == 2

\* The heat slider's range (tk.Scale from_=70, to=300).
SliderMin == 70
SliderMax == 300

Temps == (SliderMin - TempBelow)..(SliderMax + TempAbove)
Durations == (0 - DurBelow)..DurMax

---------------------------------------------------------------------------
(* Arithmetic helpers. *)

\* n seconds, in half seconds.
Sec(n) == 2 * n

\* The membership degree 1.0: the least common multiple of the divisors
\* 50, 40, 35, 100 (heat) and 30, 25, 70 (duration, in half seconds).
One == 8 * 3 * 25 * 7

Max(a, b) == IF a >= b THEN a ELSE b
Min(a, b) == IF a <= b THEN a ELSE b

RECURSIVE Gcd(_, _)
Gcd(a, b) == IF b = 0 THEN a ELSE Gcd(b, a % b)

\* Python's int(): truncation toward zero of the fraction n / d, d > 0.
int(n, d) == IF n >= 0 THEN n \div d ELSE 0 - ((0 - n) \div d)

\* The outcome of a division by zero.
ZeroDivisionError == [num |-> 0, den |-> 0]

\* Python's n / d on non-negative n: a reduced fraction, or the error.
Divide(n, d) ==
    IF d = 0 THEN ZeroDivisionError
    ELSE LET g == Gcd(n, d) IN [num |-> n \div g, den |-> d \div g]

\* The number 0.
Zero == [num |-> 0, den |-> 1]

---------------------------------------------------------------------------
(* The fuzzy sets, in the order the dict literals declare them. *)

HeatKeys == <<"low", "medium", "high", "critical">>
DurationKeys == <<"short", "medium", "long">>

Range(s) == {s[i] : i \in 1..Len(s)}

\* list(memberships.keys()): a dict keeps its insertion order.
keys(memberships) ==
    IF DOMAIN memberships = Range(HeatKeys) THEN HeatKeys ELSE DurationKeys

\* str.capitalize() on the category names.
capitalize(key) ==
    CASE key = "low" -> "Low"
      [] key = "medium" -> "Medium"
      [] key = "high" -> "High"
      [] key = "critical" -> "Critical"
      [] key = "short" -> "Short"
      [] key = "long" -> "Long"

\* The critical set starting after the end of the high set (temp > 220),
\* which leaves 220 degrees in no set.
get_heat_membership_critical_late(temp) ==
    [k \in Range(HeatKeys) |->
        CASE k = "low" ->
                IF temp <= 120
                THEN Max(0, (One * (120 - temp)) \div 50)
                ELSE 0
          [] k = "medium" ->
                IF 100 <= temp /\ temp <= 180
                THEN IF temp <= 140
                     THEN (One * (temp - 100)) \div 40
                     ELSE (One * (180 - temp)) \div 40
                ELSE 0
          [] k = "high" ->
                IF 150 <= temp /\ temp <= 220
                THEN IF temp <= 185
                     THEN (One * (temp - 150)) \div 35
                     ELSE (One * (220 - temp)) \div 35
                ELSE 0
          [] k = "critical" ->
                IF temp > 220
                THEN Min(One, (One * (temp - 200)) \div 100)
                ELSE 0]

get_heat_membership(temp) ==
    [k \in Range(HeatKeys) |->
        CASE k = "low" ->
                IF temp <= 120
                THEN Max(0, (One * (120 - temp)) \div 50)
                ELSE 0
          [] k = "medium" ->
                IF 100 <= temp /\ temp <= 180
                THEN IF temp <= 140
                     THEN (One * (temp - 100)) \div 40
                     ELSE (One * (180 - temp)) \div 40
                ELSE 0
          [] k = "high" ->
                IF 150 <= temp /\ temp <= 220
                THEN IF temp <= 185
                     THEN (One * (temp - 150)) \div 35
                     ELSE (One * (220 - temp)) \div 35
                ELSE 0
          [] k = "critical" ->
                IF temp >= 200
                THEN Min(One, (One * (temp - 200)) \div 100)
                ELSE 0]

\* The long set rising over 10 s in place of 35 s.
get_duration_membership_steep_long(d) ==
    [k \in Range(DurationKeys) |->
        CASE k = "short" ->
                IF d <= Sec(15)
                THEN Max(0, (One * (Sec(15) - d)) \div Sec(15))
                ELSE 0
          [] k = "medium" ->
                IF Sec(10) <= d /\ d <= Sec(35)
                THEN IF d <= 45
                     THEN (One * (d - Sec(10))) \div 25
                     ELSE (One * (Sec(35) - d)) \div 25
                ELSE 0
          [] k = "long" ->
                IF d >= Sec(25)
                THEN Min(One, (One * (d - Sec(25))) \div Sec(10))
                ELSE 0]

\* d is in half seconds: 22.5 s = 45, and (x s) / 12.5 = (x half s) / 25.
get_duration_membership(d) ==
    [k \in Range(DurationKeys) |->
        CASE k = "short" ->
                IF d <= Sec(15)
                THEN Max(0, (One * (Sec(15) - d)) \div Sec(15))
                ELSE 0
          [] k = "medium" ->
                IF Sec(10) <= d /\ d <= Sec(35)
                THEN IF d <= 45
                     THEN (One * (d - Sec(10))) \div 25
                     ELSE (One * (Sec(35) - d)) \div 25
                ELSE 0
          [] k = "long" ->
                IF d >= Sec(25)
                THEN Min(One, (One * (d - Sec(25))) \div Sec(35))
                ELSE 0]

\* The high/medium rule with output 0.4 in place of 0.8.
rules_high_medium_low == <<
    [heat |-> "low", duration |-> "short", output |-> 0],
    [heat |-> "low", duration |-> "medium", output |-> 0],
    [heat |-> "low", duration |-> "long", output |-> 0],
    [heat |-> "medium", duration |-> "short", output |-> 2],
    [heat |-> "medium", duration |-> "medium", output |-> 4],
    [heat |-> "medium", duration |-> "long", output |-> 6],
    [heat |-> "high", duration |-> "short", output |-> 6],
    [heat |-> "high", duration |-> "medium", output |-> 4],
    [heat |-> "high", duration |-> "long", output |-> 10],
    [heat |-> "critical", duration |-> "short", output |-> 8],
    [heat |-> "critical", duration |-> "medium", output |-> 10],
    [heat |-> "critical", duration |-> "long", output |-> 10] >>

\* The critical/short rule with the high row's output 0.6 in place of 0.8.
rules_critical_short_low == <<
    [heat |-> "low", duration |-> "short", output |-> 0],
    [heat |-> "low", duration |-> "medium", output |-> 0],
    [heat |-> "low", duration |-> "long", output |-> 0],
    [heat |-> "medium", duration |-> "short", output |-> 2],
    [heat |-> "medium", duration |-> "medium", output |-> 4],
    [heat |-> "medium", duration |-> "long", output |-> 6],
    [heat |-> "high", duration |-> "short", output |-> 6],
    [heat |-> "high", duration |-> "medium", output |-> 8],
    [heat |-> "high", duration |-> "long", output |-> 10],
    [heat |-> "critical", duration |-> "short", output |-> 6],
    [heat |-> "critical", duration |-> "medium", output |-> 10],
    [heat |-> "critical", duration |-> "long", output |-> 10] >>

\* The rule table; an output is in tenths.
rules == <<
    [heat |-> "low", duration |-> "short", output |-> 0],
    [heat |-> "low", duration |-> "medium", output |-> 0],
    [heat |-> "low", duration |-> "long", output |-> 0],
    [heat |-> "medium", duration |-> "short", output |-> 2],
    [heat |-> "medium", duration |-> "medium", output |-> 4],
    [heat |-> "medium", duration |-> "long", output |-> 6],
    [heat |-> "high", duration |-> "short", output |-> 6],
    [heat |-> "high", duration |-> "medium", output |-> 8],
    [heat |-> "high", duration |-> "long", output |-> 10],
    [heat |-> "critical", duration |-> "short", output |-> 8],
    [heat |-> "critical", duration |-> "medium", output |-> 10],
    [heat |-> "critical", duration |-> "long", output |-> 10] >>

\* strength of rule i
strength(hm, dm, i) == Min(hm[rules[i].heat], dm[rules[i].duration])

\* numerator (in tenths) after the first n rules
RECURSIVE numerator(_, _, _)
numerator(hm, dm, n) ==
    IF n = 0 THEN 0
    ELSE numerator(hm, dm, n - 1) + strength(hm, dm, n) * rules[n].output

\* Off by one: the last rule's strength is left out of the denominator.
RECURSIVE denominator_skips_last(_, _, _)
denominator_skips_last(hm, dm, n) ==
    IF n = 0 THEN 0
    ELSE denominator_skips_last(hm, dm, n - 1)
            + (IF n = Len(rules) THEN 0 ELSE strength(hm, dm, n))

\* denominator after the first n rules
RECURSIVE denominator(_, _, _)
denominator(hm, dm, n) ==
    IF n = 0 THEN 0
    ELSE denominator(hm, dm, n - 1) + strength(hm, dm, n)

\* The division without its denominator > 0 guard.
get_fuzzy_output_unguarded(hm, dm) ==
    Divide(numerator(hm, dm, Len(rules)), 10 * denominator(hm, dm, Len(rules)))

\* return numerator / denominator if denominator > 0 else 0
get_fuzzy_output(hm, dm) ==
    LET num == numerator(hm, dm, Len(rules))
        den == denominator(hm, dm, Len(rules))
    IN  IF den > 0 THEN Divide(num, 10 * den) ELSE Zero

\* value >= max_value in place of value > max_value: a tie keeps the last.
RECURSIVE dominant_loop_last_wins(_, _)
dominant_loop_last_wins(memberships, n) ==
    IF n = 0 THEN <<0, "">>
    ELSE LET prev == dominant_loop_last_wins(memberships, n - 1)
             key == keys(memberships)[n]
         IN  IF memberships[key] >= prev[1]
             THEN <<memberships[key], key>>
             ELSE prev

\* The loop of get_dominant_membership over the first n keys:
\* the pair <<max_value, dominant>>.
RECURSIVE dominant_loop(_, _)
dominant_loop(memberships, n) ==
    IF n = 0 THEN <<0, "">>
    ELSE LET prev == dominant_loop(memberships, n - 1)
             key == keys(memberships)[n]
         IN  IF memberships[key] > prev[1]
             THEN <<memberships[key], key>>
             ELSE prev

get_dominant_membership(memberships) ==
    LET dominant == dominant_loop(memberships, Len(keys(memberships)))[2]
    IN  IF dominant # "" THEN dominant ELSE keys(memberships)[1]

\* duration >= 0 in place of duration > 0.
should_trigger_at_zero(temp, d) == temp >= 155 /\ d >= 0

\* should_trigger = heat_level >= 155 and duration > 0
should_trigger(temp, d) == temp >= 155 /\ d > 0

\* heat_multiplier without its max(1, ...) floor.
spray_duration_no_floor(temp, wo) ==
    int((5000 \div 100) * (temp - 155) * Max(wo.den, 2 * wo.num), wo.den)

\* int(base_duration * heat_multiplier * output_multiplier), with
\* heat_multiplier = Max(50, temp - 155) / 50 and
\* output_multiplier = Max(wo.den, 2 * wo.num) / (2 * wo.den).
spray_duration(temp, wo) ==
    LET base_duration == 5000
        heat_multiplier_50 == Max(50, temp - 155)
        output_multiplier_2den == Max(wo.den, 2 * wo.num)
    IN  int((base_duration \div 100) * heat_multiplier_50
                * output_multiplier_2den, wo.den)

\* The WARNING test placed before the ACTIVE test.
system_status_warning_first(temp, d) ==
    IF temp >= 140 THEN "WARNING"
    ELSE IF temp >= 155 /\ d > 0 THEN "ACTIVE"
    ELSE "STANDBY"

system_status(temp, d) ==
    IF should_trigger(temp, d) THEN "ACTIVE"
    ELSE IF temp >= 140 THEN "WARNING"
    ELSE "STANDBY"

status_color(temp, d) ==
    IF should_trigger(temp, d) THEN "#ff4444"
    ELSE IF temp >= 140 THEN "#ffa726"
    ELSE "#4ecdc4"

water_level(wo) ==
    IF wo.num > 0
    THEN IF 10 * wo.num < 3 * wo.den THEN "Low"
         ELSE IF 10 * wo.num < 7 * wo.den THEN "Medium"
         ELSE "High"
    ELSE "None"

\* int(water_output * 100)
water_pressure(wo) == int(wo.num * 100, wo.den)

calculate_system_response(temp, d) ==
    LET hm == get_heat_membership(temp)
        dm == get_duration_membership(d)
        wo == get_fuzzy_output(hm, dm)
    IN  [heat_memberships |-> hm,
         duration_memberships |-> dm,
         water_output |-> wo,
         dominant_heat |-> capitalize(get_dominant_membership(hm)),
         dominant_duration |-> capitalize(get_dominant_membership(dm)),
         should_trigger |-> should_trigger(temp, d),
         spray_duration |-> spray_duration(temp, wo),
         system_status |-> system_status(temp, d),
         status_color |-> status_color(temp, d),
         water_level |-> water_level(wo),
         water_pressure |-> water_pressure(wo)]

---------------------------------------------------------------------------
(* Spec: one call of calculate_system_response on any bounded input. *)

\* "Not called yet", for a dict or a number ...
None == [none |-> TRUE]
\* ... and for a category name.
NoKey == ""

Init ==
    /\ heat_level \in Temps
    /\ duration \in Durations
    /\ result = None
    /\ heat_memberships = None
    /\ duration_memberships = None
    /\ water_output = None
    /\ dominant_heat = NoKey
    /\ dominant_duration = NoKey
    /\ gui = None
    /\ after = None

CalculateSystemResponse ==
    /\ result = None
    /\ result' = calculate_system_response(heat_level, duration)
    /\ UNCHANGED <<heat_level, duration, heat_memberships,
                   duration_memberships, water_output, dominant_heat,
                   dominant_duration, gui, after>>

Next == CalculateSystemResponse

Spec == Init /\ [][Next]_vars

---------------------------------------------------------------------------
(* SpecMaps: the helpers called directly on arbitrary membership maps     *)
(* with non-negative degrees.                                             *)

Degrees == 0..MaxDegree

InitMaps ==
    /\ heat_level = None
    /\ duration = None
    /\ result = None
    /\ heat_memberships \in [Range(HeatKeys) -> Degrees]
    /\ duration_memberships \in [Range(DurationKeys) -> Degrees]
    /\ water_output = None
    /\ dominant_heat = NoKey
    /\ dominant_duration = NoKey
    /\ gui = None
    /\ after = None

GetFuzzyOutput ==
    /\ water_output = None
    /\ water_output' = get_fuzzy_output(heat_memberships, duration_memberships)
    /\ UNCHANGED <<heat_level, duration, result, heat_memberships,
                   duration_memberships, dominant_heat, dominant_duration,
                   gui, after>>

GetDominantHeat ==
    /\ dominant_heat = NoKey
    /\ dominant_heat' = get_dominant_membership(heat_memberships)
    /\ UNCHANGED <<heat_level, duration, result, heat_memberships,
                   duration_memberships, water_output, dominant_duration,
                   gui, after>>

GetDominantDuration ==
    /\ dominant_duration = NoKey
    /\ dominant_duration' = get_dominant_membership(duration_memberships)
    /\ UNCHANGED <<heat_level, duration, result, heat_memberships,
                   duration_memberships, water_output, dominant_heat,
                   gui, after>>

NextMaps == GetFuzzyOutput \/ GetDominantHeat \/ GetDominantDuration

SpecMaps == InitMaps /\ [][NextMaps]_vars

---------------------------------------------------------------------------
(* Properties of calculate_system_response (checked under Spec). *)

Called == result # None

\* a <= b and a < b on fractions with positive denominators
Leq(a, b) == a.num * b.den <= b.num * a.den
Less(a, b) == a.num * b.den < b.num * a.den

\* C1: for every temperature and every duration, every value of the heat
\* membership map and of the duration membership map lies in [0, 1].
C1_MembershipsInUnitInterval ==
    Called =>
        /\ \A k \in Range(HeatKeys) :
              0 <= result.heat_memberships[k]
                  /\ result.heat_memberships[k] <= One
        /\ \A k \in Range(DurationKeys) :
              0 <= result.duration_memberships[k]
                  /\ result.duration_memberships[k] <= One

\* C2: for every temperature and duration, water_output lies in [0, 1]
\* and water_pressure lies in 0..100.
C2_WaterOutputInUnitInterval ==
    Called =>
        /\ result.water_output.den > 0
        /\ 0 <= result.water_output.num
        /\ result.water_output.num <= result.water_output.den
        /\ result.water_pressure \in 0..100

\* C2 witness: a negative duration, whose short degree exceeds 1, with an
\* output strictly inside (0, 1).
C2_Witness ==
    /\ Called
    /\ result.heat_memberships["medium"] > 0
    /\ result.duration_memberships["short"] > One
    /\ 0 < result.water_output.num
    /\ result.water_output.num < result.water_output.den
    /\ result.water_pressure \in 1..99

\* C3: should_trigger is true iff temperature >= 155 and duration > 0.
C3_TriggerDecision ==
    Called =>
        (result.should_trigger <=> (heat_level >= 155 /\ duration > 0))

\* C3 witness: duration 0 at a temperature over the threshold, with a
\* positive water_output, does not trigger.
C3_Witness ==
    /\ Called
    /\ duration = 0
    /\ heat_level >= 155
    /\ result.water_output.num > 0
    /\ ~result.should_trigger

\* C4: system_status is ACTIVE iff should_trigger, otherwise WARNING iff
\* temperature >= 140, otherwise STANDBY; status_color is that status's
\* fixed token.
C4_StatusClassification ==
    Called =>
        /\ result.system_status \in {"ACTIVE", "WARNING", "STANDBY"}
        /\ result.system_status = "ACTIVE" <=> result.should_trigger
        /\ result.system_status = "WARNING" <=>
              (~result.should_trigger /\ heat_level >= 140)
        /\ result.system_status = "STANDBY" <=>
              (~result.should_trigger /\ heat_level < 140)
        /\ result.status_color =
              CASE result.system_status = "ACTIVE" -> "#ff4444"
                [] result.system_status = "WARNING" -> "#ffa726"
                [] result.system_status = "STANDBY" -> "#4ecdc4"

\* C4 witness: ACTIVE takes priority over WARNING at a temperature that
\* passes both tests.
C4_Witness ==
    /\ Called
    /\ heat_level >= 155
    /\ duration > 0
    /\ result.system_status = "ACTIVE"
    /\ result.status_color = "#ff4444"

\* C5: spray_duration is 5000 * max(1, (temperature - 155) / 50)
\* * max(0.5, water_output) truncated to an integer, and is never negative.
\* With water_output = num / den the product is
\* 50 * max(50, temperature - 155) * max(den, 2 * num) / den.
C5_SprayDuration ==
    Called =>
        LET wo == result.water_output
            product == 50 * Max(50, heat_level - 155)
                          * Max(wo.den, 2 * wo.num)
        IN  /\ result.spray_duration >= 0
            /\ result.spray_duration * wo.den <= product
            /\ product < (result.spray_duration + 1) * wo.den

\* C5 witness: no trigger, yet both multipliers are above their floors.
C5_Witness ==
    /\ Called
    /\ ~result.should_trigger
    /\ heat_level > 205
    /\ 2 * result.water_output.num > result.water_output.den
    /\ result.spray_duration > 5000 \div 2

---------------------------------------------------------------------------
(* Properties of the helpers on arbitrary maps (checked under SpecMaps). *)

\* key is the first key, in the order of ks, that holds the greatest value
IsFirstMaximum(memberships, ks, key) ==
    \E i \in 1..Len(ks) :
        /\ ks[i] = key
        /\ \A j \in 1..Len(ks) : memberships[ks[j]] <= memberships[key]
        /\ \A j \in 1..(i - 1) : memberships[ks[j]] < memberships[key]

\* C6: get_dominant_membership returns the key of the greatest value, the
\* first such key in declared order when several share it, and the first
\* declared key when all values are zero.
C6_DominantMembership ==
    /\ dominant_heat # NoKey =>
          /\ IsFirstMaximum(heat_memberships, HeatKeys, dominant_heat)
          /\ (\A k \in Range(HeatKeys) : heat_memberships[k] = 0)
                => dominant_heat = "low"
    /\ dominant_duration # NoKey =>
          /\ IsFirstMaximum(duration_memberships, DurationKeys,
                            dominant_duration)
          /\ (\A k \in Range(DurationKeys) : duration_memberships[k] = 0)
                => dominant_duration = "short"

\* C6 witness: a tie between medium and critical heat resolved to medium,
\* and an all-zero duration map resolved to short.
C6_Witness ==
    /\ dominant_heat = "medium"
    /\ heat_memberships["medium"] = heat_memberships["critical"]
    /\ heat_memberships["low"] < heat_memberships["medium"]
    /\ dominant_duration = "short"
    /\ \A k \in Range(DurationKeys) : duration_memberships[k] = 0

\* The rule table of the specification, heat category by duration
\* category, in tenths.
RuleTable == << <<0, 0, 0>>, <<2, 4, 6>>, <<6, 8, 10>>, <<8, 10, 10>> >>

\* The sum over the first n (heat, duration) pairs of min(heat, duration),
\* each weighted by its table output when weighted is TRUE.
RECURSIVE PairSum(_, _, _, _)
PairSum(hm, dm, weighted, n) ==
    IF n = 0 THEN 0
    ELSE LET i == ((n - 1) \div Len(DurationKeys)) + 1
             j == ((n - 1) % Len(DurationKeys)) + 1
             s == Min(hm[HeatKeys[i]], dm[DurationKeys[j]])
         IN  PairSum(hm, dm, weighted, n - 1)
                + (IF weighted THEN s * RuleTable[i][j] ELSE s)

\* C8: get_fuzzy_output never fails; it returns the sum of
\* min(heat, duration) * output over the 12 rules divided by the sum of
\* min(heat, duration) when that sum is > 0, and 0 when it is 0.
C8_FuzzyOutputTotal ==
    water_output # None =>
        LET n == Len(HeatKeys) * Len(DurationKeys)
            num == PairSum(heat_memberships, duration_memberships, TRUE, n)
            den == PairSum(heat_memberships, duration_memberships, FALSE, n)
        IN  /\ water_output # ZeroDivisionError
            /\ water_output.den > 0
            /\ den > 0 => water_output.num * 10 * den = num * water_output.den
            /\ den = 0 => water_output = Zero

\* C8 witness: the heat map holds a positive degree and the duration map
\* none, so every firing strength is 0, and the call returned 0.
C8_Witness ==
    /\ water_output = Zero
    /\ heat_memberships["critical"] > 0
    /\ \A k \in Range(DurationKeys) : duration_memberships[k] = 0

---------------------------------------------------------------------------
(* Further properties of calculate_system_response (checked under Spec). *)

One_0 == [num |-> 1, den |-> 1]

\* The record of the call at 250 degrees and 30 s, but for its dominant
\* duration.
Response_250_30 ==
    /\ result.dominant_heat = "Critical"
    /\ result.water_output = One_0
    /\ result.should_trigger
    /\ result.system_status = "ACTIVE"
    /\ result.water_level = "High"
    /\ result.water_pressure = 100
    /\ result.spray_duration = 9500

\* C7 as stated: calculate_system_response(250, 30) returns dominant heat
\* Critical and dominant duration Long, water_output 1.0, should_trigger
\* true, status ACTIVE, water_level High, water_pressure 100 and
\* spray_duration 9500.
C7_Response_250_30_Long ==
    (Called /\ heat_level = 250 /\ duration = Sec(30)) =>
        (Response_250_30 /\ result.dominant_duration = "Long")

\* C7 as amended: the same record, with dominant duration Medium (at 30 s
\* the medium degree is 0.4 and the long degree 1/7).
C7_Response_250_30_Medium ==
    (Called /\ heat_level = 250 /\ duration = Sec(30)) =>
        /\ Response_250_30
        /\ result.dominant_duration = "Medium"
        /\ 5 * result.duration_memberships["medium"] = 2 * One
        /\ 7 * result.duration_memberships["long"] = One

\* C7 witness: the call at 250 degrees and 30 s has returned.
C7_Witness == Called /\ heat_level = 250 /\ duration = Sec(30)

\* water_output of the call on (temp, d)
WaterOutput(temp, d) ==
    get_fuzzy_output(get_heat_membership(temp), get_duration_membership(d))

\* the number of categories of a map with a non-zero degree
Active(memberships) ==
    Cardinality({k \in DOMAIN memberships : memberships[k] > 0})

\* water_output does not decrease from this call to the call one step
\* later in duration / in temperature
MonotoneInDuration ==
    (duration + 1) \in Durations =>
        Leq(result.water_output, WaterOutput(heat_level, duration + 1))
MonotoneInTemperature ==
    (heat_level + 1) \in Temps =>
        Leq(result.water_output, WaterOutput(heat_level + 1, duration))

\* C9 as stated: for a fixed temperature water_output never decreases
\* when duration increases, and for a fixed duration it never decreases
\* when temperature increases.
C9_Monotone ==
    Called => (MonotoneInDuration /\ MonotoneInTemperature)

\* C9 as amended: in exact arithmetic, water_output never decreases when
\* duration increases at a fixed temperature that has a single heat
\* category with a non-zero degree, and never decreases when temperature
\* increases at a fixed duration that has a single duration category with
\* a non-zero degree.
C9_MonotoneSingleCategory ==
    Called =>
        /\ Active(result.heat_memberships) = 1 => MonotoneInDuration
        /\ Active(result.duration_memberships) = 1 => MonotoneInTemperature

\* C9 witness: a single heat category, two overlapping duration
\* categories, and an output that strictly increases with the next step
\* in duration.
C9_Witness ==
    /\ Called
    /\ Active(result.heat_memberships) = 1
    /\ Active(result.duration_memberships) = 2
    /\ (duration + 1) \in Durations
    /\ Less(result.water_output, WaterOutput(heat_level, duration + 1))

\* C10 as stated: whenever dominant_heat is Critical, water_output is at
\* least 0.8, for every duration.
C10_CriticalAtLeast08 ==
    (Called /\ result.dominant_heat = "Critical") =>
        10 * result.water_output.num >= 8 * result.water_output.den

\* C10 as amended: whenever dominant_heat is Critical, water_output is at
\* least 0.7, for every duration (high still fires under a dominant
\* critical, and its short rule has output 0.6).
C10_CriticalAtLeast07 ==
    (Called /\ result.dominant_heat = "Critical") =>
        10 * result.water_output.num >= 7 * result.water_output.den

\* C10 witness: critical dominates while high still has a non-zero
\* degree, at a non-positive duration, and the output is under 0.8.
C10_Witness ==
    /\ Called
    /\ result.dominant_heat = "Critical"
    /\ result.heat_memberships["high"] > 0
    /\ duration <= 0
    /\ 10 * result.water_output.num < 8 * result.water_output.den

\* C11: for every temperature and duration, the heat membership map and
\* the duration membership map each hold at least one strictly positive
\* value, so the sum of the firing strengths is > 0 and get_fuzzy_output
\* does not take its zero-denominator fallback.
C11_SomeRuleFires ==
    Called =>
        /\ Active(result.heat_memberships) >= 1
        /\ Active(result.duration_memberships) >= 1
        /\ PairSum(result.heat_memberships, result.duration_memberships,
                   FALSE, Len(HeatKeys) * Len(DurationKeys)) > 0

\* C11 witness: a temperature and a duration that each sit on the edge of
\* a set (high ends at 220 degrees, short ends at 15 s), where only the
\* neighbouring set is positive.
C11_Witness ==
    /\ Called
    /\ heat_level = 220
    /\ duration = Sec(15)
    /\ result.heat_memberships["high"] = 0
    /\ result.duration_memberships["short"] = 0
    /\ Active(result.heat_memberships) = 1
    /\ Active(result.duration_memberships) = 1

---------------------------------------------------------------------------
(* SpecGUI: the window (src/gui_components.py).  gui holds the object's   *)
(* attributes and the widget options the handlers set; after holds, per   *)
(* callback, how many calls root.after has scheduled and not yet run.     *)
(* The canvas items (sprinkler, water drops, fire image) are drawings     *)
(* and are not part of the state.  An attribute not assigned yet is None. *)

\* The positions of the heat slider that are explored.
SliderValues ==
    {SliderMin + ((k * (SliderMax - SliderMin)) \div SliderStops) :
        k \in 0..SliderStops}

\* update_membership_display: the heat memberships over 0.01.
update_membership_display(res) ==
    LET shown == {k \in Range(HeatKeys) :
                     100 * res.heat_memberships[k] > One}
    IN  [k \in shown |-> res.heat_memberships[k]]

\* update_system passing a duration of 1 s in place of 0.
update_system_duration_one(g) ==
    LET res == calculate_system_response(g.heat_level, Sec(1))
    IN  [g EXCEPT !.heat_fuzzy_label = res.dominant_heat,
                  !.water_fuzzy_label = res.water_level,
                  !.status_label = res.system_status,
                  !.status_fg = res.status_color,
                  !.pressure_label = res.water_pressure,
                  !.heat_membership_frame = update_membership_display(res)]

\* update_system: calculate_system_response(self.heat_level.get(), 0),
\* then the labels.
update_system(g) ==
    LET res == calculate_system_response(g.heat_level, 0)
    IN  [g EXCEPT !.heat_fuzzy_label = res.dominant_heat,
                  !.water_fuzzy_label = res.water_level,
                  !.status_label = res.system_status,
                  !.status_fg = res.status_color,
                  !.pressure_label = res.water_pressure,
                  !.heat_membership_frame = update_membership_display(res)]

\* The handlers below take and return st = [gui, after].

\* animate_water_spray: return when the animation is off, else draw the
\* drops and schedule the next frame.
animate_water_spray(st) ==
    IF ~st.gui.animation_running THEN st
    ELSE [st EXCEPT !.after.animate_water_spray = @ + 1]

\* countdown_fire_timer
countdown_fire_timer(st) ==
    IF st.gui.fire_timer > 0 /\ st.gui.is_triggered
    THEN [st EXCEPT
            !.gui.timer_label = <<"Fire will be extinguished in",
                                  st.gui.fire_timer,
                                  st.gui.total_fire_time>>,
            !.gui.fire_timer = @ - 1,
            !.after.countdown_fire_timer = @ + 1]
    ELSE [st EXCEPT
            !.gui.timer_label = <<"Fire extinguished!">>,
            !.gui.is_triggered = FALSE,
            !.gui.animation_running = FALSE,
            !.gui.heat_scale = "normal",
            !.gui.start_btn = "normal"]

\* int(3 + 12 * ((initial_heat - 70) / 230))
fire_time(initial_heat) ==
    int(3 * 230 + 12 * (initial_heat - 70), 230)

\* start_fire
start_fire(st) ==
    IF st.gui.is_triggered THEN st
    ELSE
      LET h == st.gui.heat_level
          t == fire_time(h)
          g1 == [st.gui EXCEPT !.heat_scale = "disabled",
                               !.start_btn = "disabled",
                               !.is_triggered = TRUE,
                               !.initial_heat = h,
                               !.fire_timer = t,
                               !.total_fire_time = t]
          st2 == IF h >= 155
                 THEN animate_water_spray(
                        [st EXCEPT
                           !.gui = [g1 EXCEPT
                              !.animation_running = TRUE,
                              !.timer_label =
                                 <<"Fire will be extinguished in", t, t>>]])
                 ELSE [st EXCEPT
                         !.gui = [g1 EXCEPT
                            !.animation_running = FALSE,
                            !.timer_label =
                               <<"Fire is too small for sprinkler activation.",
                                 t, t>>]]
      IN  countdown_fire_timer(st2)

\* reset_system
reset_system(st) ==
    [st EXCEPT
        !.gui = [update_system([st.gui EXCEPT !.is_triggered = FALSE,
                                              !.animation_running = FALSE,
                                              !.heat_level = 70,
                                              !.heat_scale = "normal",
                                              !.start_btn = "normal"])
                 EXCEPT !.timer_label = <<"">>]]

\* on_heat_change; the Scale has written value to heat_level.
on_heat_change(st, value) ==
    [st EXCEPT
        !.gui = update_system([st.gui EXCEPT !.heat_level = value,
                                             !.heat_value_label = value])]

\* __init__: the attributes, the widgets with their initial options
\* (setup_ui), then update_system().
InitGUI ==
    /\ heat_level = None
    /\ duration = None
    /\ result = None
    /\ heat_memberships = None
    /\ duration_memberships = None
    /\ water_output = None
    /\ dominant_heat = NoKey
    /\ dominant_duration = NoKey
    /\ gui = update_system(
                [heat_level |-> 70,
                 is_triggered |-> FALSE,
                 animation_running |-> FALSE,
                 initial_heat |-> None,
                 fire_timer |-> None,
                 total_fire_time |-> None,
                 heat_scale |-> "normal",
                 start_btn |-> "normal",
                 heat_value_label |-> 70,
                 status_label |-> "STANDBY",
                 status_fg |-> "#4ecdc4",
                 pressure_label |-> 0,
                 heat_fuzzy_label |-> "Low",
                 water_fuzzy_label |-> "None",
                 heat_membership_frame |-> <<>>,
                 timer_label |-> <<"">>])
    /\ after = [countdown_fire_timer |-> 0, animate_water_spray |-> 0]

State == [gui |-> gui, after |-> after]

CoreUnchanged ==
    UNCHANGED <<heat_level, duration, result, heat_memberships,
                duration_memberships, water_output, dominant_heat,
                dominant_duration>>

\* The user moves the slider, which is possible while it is enabled.
OnHeatChange ==
    /\ gui.heat_scale = "normal"
    /\ \E value \in SliderValues \ {gui.heat_level} :
          LET st == on_heat_change(State, value)
          IN  gui' = st.gui /\ after' = st.after
    /\ CoreUnchanged

\* The user clicks Start Fire, which is possible while it is enabled.
StartFire ==
    /\ gui.start_btn = "normal"
    /\ after.countdown_fire_timer < MaxPending
    /\ after.animate_water_spray < MaxPending
    /\ LET st == start_fire(State)
       IN  gui' = st.gui /\ after' = st.after
    /\ CoreUnchanged

\* The user clicks Reset System; the button is never disabled.
ResetSystem ==
    /\ LET st == reset_system(State)
       IN  gui' = st.gui /\ after' = st.after
    /\ CoreUnchanged

\* The event loop runs a pending countdown_fire_timer callback.
CountdownFireTimer ==
    /\ after.countdown_fire_timer > 0
    /\ LET st == countdown_fire_timer(
                    [State EXCEPT !.after.countdown_fire_timer = @ - 1])
       IN  gui' = st.gui /\ after' = st.after
    /\ CoreUnchanged

\* The event loop runs a pending animate_water_spray callback.
AnimateWaterSpray ==
    /\ after.animate_water_spray > 0
    /\ LET st == animate_water_spray(
                    [State EXCEPT !.after.animate_water_spray = @ - 1])
       IN  gui' = st.gui /\ after' = st.after
    /\ CoreUnchanged

NextGUI ==
    \/ OnHeatChange
    \/ StartFire
    \/ ResetSystem
    \/ CountdownFireTimer
    \/ AnimateWaterSpray

SpecGUI == InitGUI /\ [][NextGUI]_vars

---------------------------------------------------------------------------
(* Properties of the window (checked under SpecGUI). *)

\* C12: at most one countdown_fire_timer callback is pending at any time.
C12_OneCountdownPending == after.countdown_fire_timer <= 1

\* C13: the status label shows only STANDBY or WARNING, never ACTIVE: it is
\* the status of the slider temperature at duration 0.
C13_StatusNeverActive ==
    /\ gui.status_label \in {"STANDBY", "WARNING"}
    /\ gui.status_label # "ACTIVE"
    /\ gui.status_label = "WARNING" <=> gui.heat_level >= 140

\* C13 witness: the slider is at 155 degrees or more and the water spray
\* animation runs, with a spray callback pending, while the label shows
\* WARNING.
C13_Witness ==
    /\ gui.heat_level >= 155
    /\ gui.is_triggered
    /\ gui.animation_running
    /\ after.animate_water_spray > 0
    /\ gui.status_label = "WARNING"

===========================================================================
